---- MODULE Spec2Model ----
(***************************************************************************)
(* agent-usage-stats: the caching / in-flight deduplication layer of the   *)
(* server (packages/server/src/rpc.ts), the uncached /api/usage entry      *)
(* point, and the process-backed JSON-RPC client of the agent package      *)
(* (CodexRpcClient and fetchCodexUsage).                                   *)
(*                                                                         *)
(* Scheduling model: one JavaScript event loop.  Every action below is one *)
(* run-to-completion step: an event handler (HTTP request, stdout line,    *)
(* timer, process exit, file read) together with the promise continuations *)
(* it releases up to the next await on an external event.                  *)
(***************************************************************************)
EXTENDS Integers, Sequences, FiniteSets, TLC

(* ------------------------------ bounds -------------------------------- *)
MaxNow == 1        \* Date.now() ranges over 0..MaxNow
NumCallers == 2    \* concurrent /rpc/usage and /rpc/last-updated requests
NumApi == 1        \* /api/usage requests over a run
MaxTasks == 2      \* fetch operations (promises) created over a run
MaxRawLen == 2     \* length of the RPC_CACHE_TTL_MS strings tried
MaxLines == 3      \* lines written by a caller that drives a client itself

(* ------------------------- program constants -------------------------- *)
DEFAULT_CACHE_TTL_MS == 10000
SUPPORTED_TYPES == {"codex"}

(* ----------------------- JavaScript Number(raw) ----------------------- *)
\* A string is a sequence of tokens; "Infinity" is the literal word.
RawTokens == {"0", "1", "2", "-", "+", " ", "a", "Infinity"}
Digits == {"0", "1", "2"}
Unset == <<"undefined">>        \* Bun.env.X of a variable that is not set
NaN == [k |-> "nan", v |-> 0]
Inf(neg) == [k |-> "inf", v |-> IF neg THEN -1 ELSE 1]
Num(n) == [k |-> "num", v |-> n]

RECURSIVE TrimLeft(_)
TrimLeft(s) == IF s # <<>> /\ Head(s) = " " THEN TrimLeft(Tail(s)) ELSE s

RECURSIVE TrimRight(_)
TrimRight(s) ==
  IF s # <<>> /\ s[Len(s)] = " " THEN TrimRight(SubSeq(s, 1, Len(s) - 1)) ELSE s

DigitValue(d) == CASE d = "0" -> 0 [] d = "1" -> 1 [] d = "2" -> 2

RECURSIVE DecimalValue(_)
DecimalValue(s) ==
  IF s = <<>> THEN 0
  ELSE 10 * DecimalValue(SubSeq(s, 1, Len(s) - 1)) + DigitValue(s[Len(s)])

\* StrUnsignedDecimalLiteral: Infinity, or a run of decimal digits.
UnsignedToNumber(s, neg) ==
  IF s = <<"Infinity">> THEN Inf(neg)
  ELSE IF s # <<>> /\ \A i \in 1..Len(s) : s[i] \in Digits
       THEN Num(IF neg THEN 0 - DecimalValue(s) ELSE DecimalValue(s))
       ELSE NaN

\* Number(string): white space is trimmed, the empty string is 0, one
\* optional sign, anything else is NaN.
StringToNumber(raw) ==
  LET s == TrimRight(TrimLeft(raw)) IN
  IF s = <<>> THEN Num(0)
  ELSE IF Head(s) = "-" THEN UnsignedToNumber(Tail(s), TRUE)
  ELSE IF Head(s) = "+" THEN UnsignedToNumber(Tail(s), FALSE)
  ELSE UnsignedToNumber(s, FALSE)

IsFinite(x) == x.k = "num"
Truthy(raw) == raw # Unset /\ raw # <<>>

\* the comparison parsed < 0 of JavaScript (false for NaN)
LessThanZero(x) == (x.k = "num" /\ x.v < 0) \/ (x.k = "inf" /\ x.v < 0)

parseCacheTtl_NoNegativeCheck(raw) ==
  IF ~Truthy(raw) THEN DEFAULT_CACHE_TTL_MS
  ELSE LET parsed == StringToNumber(raw) IN
       IF ~IsFinite(parsed) THEN DEFAULT_CACHE_TTL_MS ELSE parsed.v

parseCacheTtl(raw) ==
  IF ~Truthy(raw) THEN DEFAULT_CACHE_TTL_MS
  ELSE LET parsed == StringToNumber(raw) IN
       IF ~IsFinite(parsed) \/ LessThanZero(parsed) THEN DEFAULT_CACHE_TTL_MS
       ELSE parsed.v

RawStrings == UNION {[1..n -> RawTokens] : n \in 0..MaxRawLen}
RawEnv == RawStrings \cup {Unset}

(* --------------------------- CodexRpcClient --------------------------- *)
\* pending: the id -> {resolve, reject, timeoutId} table, as a set of
\* PendingCalls; timers: the ids whose setTimeout is armed.
NoClient ==
  [proc |-> "none", closed |-> FALSE, nextId |-> 1, pending |-> {},
   timers |-> {}, written |-> <<>>, resolved |-> {}, rejected |-> {},
   rl |-> "none", stdin |-> "none", kills |-> 0]

\* connect: spawn(binary, args), then the constructor's fields.  spawn
\* returns a ChildProcess whether or not the binary can be started; when it
\* cannot, the child has no process and emits "error" later.
Connect(spawned) ==
  [proc |-> IF spawned THEN "running" ELSE "spawn-failed",
   closed |-> FALSE, nextId |-> 1, pending |-> {},
   timers |-> {}, written |-> <<>>, resolved |-> {}, rejected |-> {},
   rl |-> "open", stdin |-> "open", kills |-> 0]

\* a request that looks at the process and fails at once when it has ended
Request_FailsAfterExit(cl, method) ==
  IF cl.proc = "exited"
  THEN [cl EXCEPT !.nextId = cl.nextId + 1,
                  !.written = Append(cl.written, method),
                  !.rejected = cl.rejected \cup
                    {[id |-> cl.nextId, err |-> <<"exited-unexpectedly">>]}]
  ELSE [cl EXCEPT !.nextId = cl.nextId + 1,
                  !.pending = cl.pending \cup {[id |-> cl.nextId, method |-> method]},
                  !.timers = cl.timers \cup {cl.nextId},
                  !.written = Append(cl.written, method)]

\* a request without its setTimeout
Request_NoTimer(cl, method) ==
  [cl EXCEPT !.nextId = cl.nextId + 1,
             !.pending = cl.pending \cup {[id |-> cl.nextId, method |-> method]},
             !.written = Append(cl.written, method)]

\* a request that takes its id without the increment
Request_SameId(cl, method) ==
  [cl EXCEPT !.pending = cl.pending \cup {[id |-> cl.nextId, method |-> method]},
             !.timers = cl.timers \cup {cl.nextId},
             !.written = Append(cl.written, method)]

\* request(method): id = nextId++, the PendingCall and its timer are
\* registered, then the line is written to stdin.
Request(cl, method) ==
  [cl EXCEPT !.nextId = cl.nextId + 1,
             !.pending = cl.pending \cup {[id |-> cl.nextId, method |-> method]},
             !.timers = cl.timers \cup {cl.nextId},
             !.written = Append(cl.written, method)]

\* notify(method): nothing once closed, else one line without an id.
Notify(cl, method) ==
  IF cl.closed THEN cl ELSE [cl EXCEPT !.written = Append(cl.written, method)]

\* the method of the call with this id: the id-th request written
MethodOf(cl, id) ==
  LET calls == SelectSeq(cl.written, LAMBDA m : m # "initialized") IN
  IF id \in 1..Len(calls) THEN calls[id] ELSE "unknown"

\* pending.reject(error) for the calls ids
Reject(cl, ids, err) ==
  [cl EXCEPT !.rejected = cl.rejected \cup {[id |-> i, err |-> err] : i \in ids}]

\* a failAllPending without its clearTimeout
failAllPending_KeepsTimers(cl, err) ==
  [Reject(cl, {x.id : x \in cl.pending}, err) EXCEPT !.pending = {}]

\* failAllPending(error): every timer cleared, every call rejected, table
\* cleared.
failAllPending(cl, err) ==
  [Reject(cl, {x.id : x \in cl.pending}, err) EXCEPT !.pending = {}, !.timers = {}]

\* a close() that forgets the process and the pending table
close_FlagOnly(cl) == [cl EXCEPT !.closed = TRUE]

\* a close() without its closed guard
close_Unguarded(cl) ==
  failAllPending([cl EXCEPT !.closed = TRUE, !.rl = "closed", !.stdin = "ended",
                            !.kills = cl.kills + 1],
                 <<"closed">>)

\* close(): returns at once when closed; else closed = true, rl.close(),
\* stdin.end(), child.kill(), failAllPending.
close(cl) ==
  IF cl.closed THEN cl
  ELSE failAllPending([cl EXCEPT !.closed = TRUE,
                                 !.rl = "closed",
                                 !.stdin = "ended",
                                 !.kills = cl.kills + 1,
                                 !.proc = IF cl.proc = "running" THEN "killed"
                                          ELSE cl.proc],
                      <<"closed">>)

\* the lines the agent may send: a result or an error response for an id,
\* a line that is no JSON, a JSON line without a numeric id (id 0 here)
LineKinds == {"result", "error", "junk", "noid"}
Responses == {"result", "error"}
NoId == 0

\* a handleLine that gives a response to the oldest pending call, whatever
\* id the line carries
handleLine_ByArrival(cl, id, kind) ==
  LET first == {x \in cl.pending : \A y \in cl.pending : x.id <= y.id}
      ids == {x.id : x \in first}
      cl1 == [cl EXCEPT !.pending = cl.pending \ first, !.timers = cl.timers \ ids]
  IN
  IF kind \in {"junk", "noid"} \/ {x \in cl.pending : x.id = id} = {} THEN cl
  ELSE IF kind = "error"
       THEN Reject(cl1, ids, <<"rpc-error", MethodOf(cl, id)>>)
       ELSE [cl1 EXCEPT !.resolved = cl.resolved \cup ids]

\* a handleLine that takes a line it cannot read for a failed connection
handleLine_JunkFails(cl, id, kind) ==
  LET p == {x \in cl.pending : x.id = id}
      cl1 == [cl EXCEPT !.pending = cl.pending \ p, !.timers = cl.timers \ {id}]
  IN
  IF kind \in {"junk", "noid"} \/ p = {} THEN failAllPending(cl, <<"junk">>)
  ELSE IF kind = "error"
       THEN Reject(cl1, {id}, <<"rpc-error", MethodOf(cl, id)>>)
       ELSE [cl1 EXCEPT !.resolved = cl.resolved \cup {id}]

\* handleLine(line): JSON.parse fails -> return; no numeric id -> return;
\* no pending call of that id -> return; else the call is removed, its
\* timer cleared, and it is rejected (error) or resolved (result).
handleLine(cl, id, kind) ==
  LET p == {x \in cl.pending : x.id = id}
      cl1 == [cl EXCEPT !.pending = cl.pending \ p, !.timers = cl.timers \ {id}]
  IN
  IF kind \in {"junk", "noid"} \/ p = {} THEN cl
  ELSE IF kind = "error"
       THEN Reject(cl1, {id}, <<"rpc-error", MethodOf(cl, id)>>)
       ELSE [cl1 EXCEPT !.resolved = cl.resolved \cup {id}]

\* the setTimeout callback of call id: pending.delete(id), reject
onTimeout(cl, id) ==
  LET p == {x \in cl.pending : x.id = id} IN
  Reject([cl EXCEPT !.pending = cl.pending \ p, !.timers = cl.timers \ {id}],
         {x.id : x \in p}, <<"timeout", MethodOf(cl, id)>>)

\* the exit events tried: code 0, code 2, killed by a signal (code null)
ExitEvents ==
  {[code |-> "0", signal |-> "none"], [code |-> "2", signal |-> "none"],
   [code |-> "null", signal |-> "SIGKILL"]}

\* the exits tried on the client of a fetch: those with a code
FetchExitEvents == {ev \in ExitEvents : ev.signal = "none"}

\* the message of the exit handler: "exited unexpectedly" for code 0, else
\* "exited (" code ?? "unknown", "$", ":" signal when there is one, ")"
ExitError(ev) ==
  IF ev.code = "0" THEN <<"exited-unexpectedly">>
  ELSE <<"exited", IF ev.code = "null" THEN "unknown" ELSE ev.code, "$",
         IF ev.signal = "none" THEN "" ELSE ev.signal>>

\* an exit handler that takes code 0 for a clean end
onExit_ZeroIsClean(cl, ev) ==
  IF cl.closed THEN cl
  ELSE IF ev.code = "0" THEN [cl EXCEPT !.proc = "exited"]
  ELSE failAllPending([cl EXCEPT !.proc = "exited"], ExitError(ev))

\* child.on("exit"): nothing once closed, else failAllPending(error)
onExit(cl, ev) ==
  IF cl.closed THEN cl
  ELSE failAllPending([cl EXCEPT !.proc = "exited"], ExitError(ev))

(* ------------------- part_004: account and fallback ------------------- *)
\* JavaScript's undefined and null, and a ?? b
Undefined == "undefined"
Null == "null"
Nullish(x) == x \in {Undefined, Null}
Coalesce(a, b) == IF Nullish(a) THEN b ELSE a

NoClaims ==
  [nsEmail |-> Undefined, email |-> Undefined, nsPlan |-> Undefined,
   plan |-> Undefined]

\* the claims objects tried: the namespaced keys
\* https://api.openai.com/profile.email and
\* https://api.openai.com/auth.chatgpt_plan_type, and the plain keys email
\* and chatgpt_plan_type
ClaimSets ==
  [nsEmail : {Undefined, "ns@y.com"}, email : {Undefined, "b@y.com"},
   nsPlan : {Undefined, "plus"}, plan : {Undefined, "free"}]

\* what the file at authPath may hold
AuthFileKinds ==
  {"missing", "not-json", "json-null", "no-tokens", "no-idToken",
   "token-not-string", "token-one-segment", "token-bad-payload",
   "token-null-payload"}

AuthFilesOf(claimSets) ==
  {[kind |-> k, claims |-> NoClaims] : k \in AuthFileKinds}
    \cup {[kind |-> "token-claims", claims |-> c] : c \in claimSets}

AuthFiles == AuthFilesOf(ClaimSets)
\* one file for each way readCodexAuth can end: it rejects, it resolves
\* with undefined, it resolves with a fallback
AuthFileShapes ==
  {f \in AuthFilesOf({NoClaims}) : f.kind \in {"missing", "no-tokens", "token-claims"}}

AuthThrows == [k |-> "throws", email |-> Undefined, planType |-> Undefined]
AuthUndefined == [k |-> "undefined", email |-> Undefined, planType |-> Undefined]

\* decodeJwtPayload(token): undefined without a second segment or when the
\* segment is no JSON; else what JSON.parse gives
decodeJwtPayload(file) ==
  CASE file.kind = "token-one-segment" -> "undefined"
    [] file.kind = "token-bad-payload" -> "undefined"
    [] file.kind = "token-null-payload" -> "null"
    [] OTHER -> "claims"

\* readCodexAuth(authPath): rejects when readFile or JSON.parse fails, or
\* on a TypeError (parsed is null, idToken has no split); resolves with
\* undefined without tokens.idToken or without claims; else with the email
\* and planType of the claims, the namespaced key first
readCodexAuth(file) ==
  CASE file.kind \in {"missing", "not-json", "json-null", "token-not-string"} ->
         AuthThrows
    [] file.kind \in {"no-tokens", "no-idToken"} -> AuthUndefined
    [] OTHER ->
         IF decodeJwtPayload(file) # "claims" THEN AuthUndefined
         ELSE [k |-> "value",
               email |-> Coalesce(file.claims.nsEmail, file.claims.email),
               planType |-> Coalesce(file.claims.nsPlan, file.claims.plan)]

\* readCodexAuth(authPath) awaited without a catch
AuthFallback_Uncaught(file) == readCodexAuth(file)

\* readCodexAuth(authPath).catch(() => undefined)
AuthFallback(file) ==
  IF readCodexAuth(file).k = "throws" THEN AuthUndefined ELSE readCodexAuth(file)

\* the results of account/read tried: account present or not, its email
\* and planType a string, null or not there
AccountResults ==
  [hasAccount : BOOLEAN, type : {Undefined, "chatgpt"},
   email : {Undefined, Null, "a@x.com"}, planType : {Undefined, Null, "pro"},
   requiresOpenaiAuth : {Undefined, "true"}]

\* result.account ?? {}
AccountOf(result) ==
  IF result.hasAccount THEN result
  ELSE [result EXCEPT !.type = Undefined, !.email = Undefined,
                      !.planType = Undefined]

\* mergeAccount returned undefined
NoAccount ==
  [k |-> Undefined, type |-> Undefined, email |-> Undefined,
   planType |-> Undefined, requiresOpenaiAuth |-> Undefined]

\* a merge in which the credential file wins
mergeAccount_FallbackWins(result, fallback) ==
  LET account == AccountOf(result)
      merged == [k |-> Undefined, type |-> account.type,
                 email |-> Coalesce(fallback.email, account.email),
                 planType |-> Coalesce(fallback.planType, account.planType),
                 requiresOpenaiAuth |-> result.requiresOpenaiAuth]
  IN IF \E f \in DOMAIN merged : merged[f] # Undefined
     THEN [merged EXCEPT !.k = "object"] ELSE NoAccount

\* mergeAccount(result, fallback): account.email ?? fallback?.email, the
\* same for planType; undefined when no field has a value
mergeAccount(result, fallback) ==
  LET account == AccountOf(result)
      merged == [k |-> Undefined, type |-> account.type,
                 email |-> Coalesce(account.email, fallback.email),
                 planType |-> Coalesce(account.planType, fallback.planType),
                 requiresOpenaiAuth |-> result.requiresOpenaiAuth]
  IN IF \E f \in DOMAIN merged : merged[f] # Undefined
     THEN [merged EXCEPT !.k = "object"] ELSE NoAccount

\* fetchCodexUsage from the fallback on: readCodexAuth with its catch,
\* mergeAccount, return
FetchTail(result, file) ==
  IF AuthFallback(file).k = "throws"
  THEN [fn |-> "tail", k |-> "threw", account |-> NoAccount]
  ELSE [fn |-> "tail", k |-> "returned",
        account |-> mergeAccount(result, AuthFallback(file))]

(* -------------------- rpc.ts: conditional requests -------------------- *)
\* buildEtag(type, timestamp) = W/"<type>-<timestamp>"
buildEtag(type, timestamp) == <<"W/", type, "-", timestamp>>

\* the timestamps (ms) entries carry here
Stamps == {0, 1000, 1500, 2000}

\* new Date(ms).toUTCString(): an HTTP date, whole seconds
toUTCString(ms) == <<"http-date", ms \div 1000>>

\* the header values tried.  if-modified-since: an HTTP date, an ISO date
\* with milliseconds, a string that is no date, the empty string
DateStrings ==
  {toUTCString(ms) : ms \in Stamps} \cup {<<"iso-date", ms>> : ms \in Stamps}
    \cup {<<"no-date">>, <<>>}

\* Date.parse(string): milliseconds, or NaN
DateParse(str) ==
  CASE str = <<>> -> NaN
    [] str[1] = "http-date" -> Num(str[2] * 1000)
    [] str[1] = "iso-date" -> Num(str[2])
    [] OTHER -> NaN

\* a decision that asks for both conditions
isNotModified_Both(headers, entry) ==
  /\ Truthy(headers.ifNoneMatch)
  /\ headers.ifNoneMatch = entry.etag
  /\ Truthy(headers.ifModifiedSince)
  /\ DateParse(headers.ifModifiedSince) # NaN
  /\ entry.at <= DateParse(headers.ifModifiedSince).v

\* isNotModified(c, entry): a header that is absent or empty is falsy
isNotModified(headers, entry) ==
  IF Truthy(headers.ifNoneMatch) /\ headers.ifNoneMatch = entry.etag
  THEN TRUE
  ELSE IF Truthy(headers.ifModifiedSince)
       THEN /\ DateParse(headers.ifModifiedSince) # NaN
            /\ entry.at <= DateParse(headers.ifModifiedSince).v
       ELSE FALSE

\* a response on which no header was set
NoHeaders ==
  [ETag |-> Unset, LastModified |-> Unset, XLastUpdated |-> Unset,
   CacheControl |-> Unset]

\* String(n)
NumberToString(n) == <<"decimal", n>>

\* applyCacheHeaders(c, entry)
applyCacheHeaders(entry) ==
  [ETag |-> entry.etag, LastModified |-> toUTCString(entry.at),
   XLastUpdated |-> NumberToString(entry.at), CacheControl |-> <<"no-cache">>]

\* the handlers from the entry on, for a request whose account filter (if
\* any) matches: 304 without headers when not modified, else the headers
\* and 200
ConditionalResponse(headers, entry) ==
  IF isNotModified(headers, entry)
  THEN [fn |-> "conditional", status |-> 304, headers |-> NoHeaders]
  ELSE [fn |-> "conditional", status |-> 200, headers |-> applyCacheHeaders(entry)]

(* ------------------------------- state -------------------------------- *)
VARIABLES
  args,      \* the arguments of the function under evaluation
  ret,       \* what it returned
  env,       \* Bun.env.RPC_CACHE_TTL_MS
  ttl,       \* cacheTtlMs; NotLoaded before rpc.ts is evaluated
  now,       \* Date.now()
  cache,     \* the cache map: key -> CachedUsage
  inFlight,  \* the inFlight map: key -> fetch operation (0: no entry)
  tasks,     \* the fetch operations: loadUsage's fetchPromise, or one
             \* /api/usage handler run, each with its CodexRpcClient
  nextTask,  \* the number of the next fetch operation
  callers,   \* the /rpc/usage and /rpc/last-updated requests
  callTime   \* per request, the const now = Date.now() of its loadUsage
             \* call; NotTracked in the specifications that do not ask
             \* for it

vars ==
  <<args, ret, env, ttl, now, cache, inFlight, tasks, nextTask, callers, callTime>>

NotLoaded == -1
NotTracked == <<>>
\* callTime with the entry of request c set to v, where it is kept
CallTimeAfter(c, v) ==
  IF callTime = NotTracked THEN callTime ELSE [callTime EXCEPT ![c] = v]
Keys == {"codex", "claude"}
ReqTypes == {"codex", "CODEX", "claude"}
\* request slots; the handlers are all alike, so a new request takes the
\* lowest idle slot
Callers == 1..NumCallers
TaskIds == 1..MaxTasks

PROTOCOL == <<"initialize", "initialized", "account/read", "account/rateLimits/read">>
LineIds == 1..Len(PROTOCOL)

\* String.prototype.toLowerCase on the request types tried
toLowerCase(s) == IF s = "CODEX" THEN "codex" ELSE s

\* the CodexUsageSnapshot fetchCodexUsage returns, as far as the server
\* looks into it
Snapshot(fetchedAt) == [source |-> "rpc", fetchedAt |-> fetchedAt]

\* normalizeCodexUsage(snapshot): the AgentUsageSnapshot
normalizeCodexUsage(snapshot) ==
  [provider |-> "codex", source |-> snapshot.source,
   fetchedAt |-> snapshot.fetchedAt]

NoUsage == [provider |-> "none", source |-> "none", fetchedAt |-> 0]

NoRes ==
  [kind |-> "none", usage |-> NoUsage, at |-> 0, etag |-> <<>>, err |-> <<>>,
   op |-> 0]
NoEntry == NoRes
ErrRes(err, op) ==
  [kind |-> "error", usage |-> NoUsage, at |-> 0, etag |-> <<>>, err |-> err,
   op |-> op]

\* the CachedUsage built from a snapshot: usage =
\* normalizeCodexUsage(snapshot), lastUpdated = usage.fetchedAt (at), etag;
\* op is the identity of the object
CachedUsage(type, snapshot, op) ==
  [kind |-> "entry", usage |-> normalizeCodexUsage(snapshot),
   at |-> normalizeCodexUsage(snapshot).fetchedAt,
   etag |-> buildEtag(type, normalizeCodexUsage(snapshot).fetchedAt),
   err |-> <<>>, op |-> op]

\* a fetch operation nothing refers to any more
Collected(owner) ==
  [owner |-> owner, key |-> "none", pc |-> "gone", await |-> 0,
   cl |-> NoClient, res |-> NoRes]

NoTask ==
  [owner |-> "none", key |-> "none", pc |-> "free", await |-> 0,
   cl |-> NoClient, res |-> NoRes]

IdleCaller == [pc |-> "idle", key |-> "none", task |-> 0, res |-> NoRes]

\* the comparison turned round
isFresh_Reversed(entry, t) == ttl < t - entry.at

\* <= in the place of <
isFresh_Inclusive(entry, t) == t - entry.at <= ttl

\* isFresh(entry, now) = now - entry.lastUpdated < cacheTtlMs
isFresh(entry, t) == t - entry.at < ttl

InFlightPcs == {"connect", "init", "acct", "rate", "auth"}
\* fetchCodexUsage has called spawn and has not returned yet
Fetching(t) == tasks[t].pc \in InFlightPcs

\* awaiters that hold the promise of the async body itself
Settled_BodyPromise(t) == tasks[t].pc \in {"bodyOk", "bodyErr", "settled"}

\* the promise loadUsage returned, fetchPromise.finally(...), has settled
Settled(t) == tasks[t].pc = "settled"

\* promise continuations are queued: the event loop runs them before it
\* takes the next event
MicrotasksQueued ==
  \/ \E t \in TaskIds : tasks[t].pc \in {"bodyOk", "bodyErr", "apiDone"}
  \/ \E t \in TaskIds :
        tasks[t].cl.proc = "spawn-failed" /\ tasks[t].pc \in {"connect", "init"}
  \/ \E c \in Callers :
        \/ callers[c].pc = "awaiting" /\ Settled(callers[c].task)
        \/ callers[c].pc \in {"got", "failed", "rejected"}

\* an uncaught exception has ended the server process
Crashed == \E t \in TaskIds : tasks[t].pc = "crashed"

\* the event loop takes its next event
LoopReady == ~Crashed /\ ~MicrotasksQueued

\* the ids a response to client t may carry: those the client has issued,
\* and the next one, which stands for every id it has not issued
ResponseIds(t) == {id \in LineIds : id <= tasks[t].cl.nextId}

(* -------------------------- fetchCodexUsage --------------------------- *)
\* What the caller of fetchCodexUsage does with its outcome: loadUsage's
\* async body (pc bodyOk / bodyErr, its .finally callback still queued) or
\* the /api/usage handler, which answers at once.
AfterFetch(tk, ok) ==
  IF tk.owner = "rpc" THEN (IF ok THEN "bodyOk" ELSE "bodyErr") ELSE "apiDone"

\* a catch path that skips the finally block
FetchFail_NoClose(tk, err, t) ==
  [tk EXCEPT !.await = 0, !.res = ErrRes(err, t), !.pc = AfterFetch(tk, FALSE)]

\* catch (rethrow) then finally: await client.close()
FetchFail(tk, err, t) ==
  [tk EXCEPT !.cl = close(tk.cl), !.await = 0, !.res = ErrRes(err, t),
             !.pc = AfterFetch(tk, FALSE)]

\* return {source, fetchedAt: Date.now(), ...} then finally: close();
\* loadUsage's body then builds the CachedUsage from it
FetchReturn(tk, t) ==
  [tk EXCEPT !.cl = close(tk.cl), !.await = 0,
             !.res = CachedUsage(tk.key, Snapshot(now), t),
             !.pc = AfterFetch(tk, TRUE)]

\* await client.request(method): throws when the client is closed
AwaitRequest(tk, method, pc, t) ==
  IF tk.cl.closed THEN FetchFail(tk, <<"closed">>, t)
  ELSE [tk EXCEPT !.cl = Request(tk.cl, method), !.await = tk.cl.nextId, !.pc = pc]

\* what spawn may do: start the process, or fail with the child's "error"
\* event emitted before or after the continuation of await connect() runs
SpawnOutcomes == {"ok", "error-first", "error-later"}

\* a protocol that sends account/read without waiting for initialize
StartFetch_Eager(owner, key, t, spawn) ==
  LET tk == AwaitRequest([NoTask EXCEPT !.owner = owner, !.key = key,
                                        !.cl = Connect(spawn = "ok")],
                         "initialize", "init", t)
  IN [tk EXCEPT !.cl = Request(Notify(tk.cl, "initialized"), "account/read")]

\* fetchCodexUsage up to its first suspension: connect, which never
\* rejects, then request initialize
StartFetch(owner, key, t, spawn) ==
  LET tk == [NoTask EXCEPT !.owner = owner, !.key = key,
                           !.cl = Connect(spawn = "ok")] IN
  IF spawn = "error-first" THEN [tk EXCEPT !.pc = "connect"]
  ELSE AwaitRequest(tk, "initialize", "init", t)

\* a continuation that issues both reads at once and awaits the first
Continue_Concurrent(tk, t) ==
  CASE tk.pc = "init" ->
         LET tk1 == AwaitRequest([tk EXCEPT !.cl = Notify(tk.cl, "initialized")],
                                 "account/read", "acct", t)
         IN [tk1 EXCEPT !.cl = Request(tk1.cl, "account/rateLimits/read")]
    [] tk.pc = "acct" -> [tk EXCEPT !.await = tk.await + 1, !.pc = "rate"]
    [] tk.pc = "rate" -> [tk EXCEPT !.await = 0, !.pc = "auth"]
    [] OTHER -> tk

\* the continuation of fetchCodexUsage after the awaited call resolved
Continue(tk, t) ==
  CASE tk.pc = "init" ->
         AwaitRequest([tk EXCEPT !.cl = Notify(tk.cl, "initialized")],
                      "account/read", "acct", t)
    [] tk.pc = "acct" -> AwaitRequest(tk, "account/rateLimits/read", "rate", t)
    [] tk.pc = "rate" -> [tk EXCEPT !.await = 0, !.pc = "auth"]
    [] OTHER -> tk

\* the client handled an event: when the call fetchCodexUsage awaits was
\* resolved it goes on, when it was rejected it fails; no other call has a
\* continuation
Settle(tk, cl, t) ==
  LET tk1 == [tk EXCEPT !.cl = cl]
      r == {x \in cl.rejected : x.id = tk.await}
  IN
  IF tk.await \in cl.resolved THEN Continue(tk1, t)
  ELSE IF r # {} THEN FetchFail(tk1, (CHOOSE x \in r : TRUE).err, t)
  ELSE tk1

\* a cache.set that keeps the entry a key already has
CacheAfter_KeepFirst(old, new) ==
  IF new.pc = "bodyOk" /\ old.pc # "bodyOk" /\ cache[new.key].kind = "none"
  THEN [cache EXCEPT ![new.key] = new.res] ELSE cache

\* cache.set(type, entry) in loadUsage's body, when the fetch returned
CacheAfter(old, new) ==
  IF new.pc = "bodyOk" /\ old.pc # "bodyOk"
  THEN [cache EXCEPT ![new.key] = new.res] ELSE cache

SetTask(t, new) ==
  /\ tasks' = [tasks EXCEPT ![t] = new]
  /\ cache' = CacheAfter(tasks[t], new)
  /\ UNCHANGED <<args, ret, env, ttl, now, inFlight, nextTask, callers, callTime>>

\* rl.on("line", line => this.handleLine(line))
HandleLine(t, id, kind) ==
  LET cl == handleLine(tasks[t].cl, id, kind) IN
  /\ tasks[t].cl.rl = "open"
  /\ LoopReady
  /\ IF cl = tasks[t].cl THEN UNCHANGED vars
     ELSE SetTask(t, Settle(tasks[t], cl, t))

\* the timer of call id fires
Timeout(t, id) ==
  /\ id \in tasks[t].cl.timers
  /\ LoopReady
  /\ SetTask(t, Settle(tasks[t], onTimeout(tasks[t].cl, id), t))

\* the agent process ends: child.on("exit")
Exit(t, ev) ==
  /\ tasks[t].cl.proc \in {"running", "killed"}
  /\ LoopReady
  /\ IF tasks[t].cl.closed THEN UNCHANGED vars
     ELSE SetTask(t, Settle(tasks[t], onExit(tasks[t].cl, ev), t))

\* the child of a failed spawn emits "error"; no listener is registered
\* for it, so the emitter throws, the exception is uncaught and the server
\* process ends: its memory and its open requests are gone
SpawnError(t) ==
  /\ tasks[t].cl.proc = "spawn-failed"
  /\ tasks[t].pc \in {"connect", "init"}
  /\ tasks' = [u \in TaskIds |->
                 IF u = t THEN [NoTask EXCEPT !.pc = "crashed"] ELSE NoTask]
  /\ cache' = [k \in Keys |-> NoEntry]
  /\ inFlight' = [k \in Keys |-> 0]
  /\ callers' = [c \in Callers |-> IdleCaller]
  /\ callTime' = IF callTime = NotTracked THEN callTime ELSE [c \in Callers |-> 0]
  /\ UNCHANGED <<args, ret, env, ttl, now, nextTask>>

\* the promise readCodexAuth(authPath).catch(() => undefined) settles;
\* mergeAccount, normalizeRateLimits, return
AuthDone(t, file) ==
  /\ tasks[t].pc = "auth"
  /\ LoopReady
  /\ SetTask(t, IF AuthFallback(file).k = "throws"
                THEN FetchFail(tasks[t], <<"auth">>, t)
                ELSE FetchReturn(tasks[t], t))

(* ------------------- the client called directly ----------------------- *)
\* client.request(method) by a caller that does not wait for the answer
\* before its next call: throws when closed
CallRequest(t, method) ==
  /\ tasks[t].owner = "direct"
  /\ Len(tasks[t].cl.written) < MaxLines
  /\ tasks' = [tasks EXCEPT ![t].cl =
        IF tasks[t].cl.closed THEN tasks[t].cl ELSE Request(tasks[t].cl, method)]
  /\ UNCHANGED <<args, ret, env, ttl, now, cache, inFlight, nextTask, callers, callTime>>

\* client.notify(method)
CallNotify(t, method) ==
  /\ tasks[t].owner = "direct"
  /\ Len(tasks[t].cl.written) < MaxLines
  /\ tasks' = [tasks EXCEPT ![t].cl = Notify(tasks[t].cl, method)]
  /\ UNCHANGED <<args, ret, env, ttl, now, cache, inFlight, nextTask, callers, callTime>>

\* client.close()
CallClose(t) ==
  /\ tasks[t].owner = "direct"
  /\ tasks' = [tasks EXCEPT ![t].cl = close(tasks[t].cl)]
  /\ UNCHANGED <<args, ret, env, ttl, now, cache, inFlight, nextTask, callers, callTime>>

(* ------------------------- rpc.ts: loadUsage -------------------------- *)
Supported_Any(type) == TRUE

\* SUPPORTED_TYPES.has(type)
Supported(type) == type \in SUPPORTED_TYPES

\* a loadUsage that serves the entry it has, stale or not, while a fetch
\* is in flight
LoadDecision_StaleWhileFetching(type) ==
  IF cache[type].kind = "entry" /\ (isFresh(cache[type], now) \/ inFlight[type] # 0)
  THEN "cached"
  ELSE IF inFlight[type] # 0 THEN "join"
  ELSE "start"

\* a loadUsage that never looks at the inFlight map
LoadDecision_NoDedup(type) ==
  IF cache[type].kind = "entry" /\ isFresh(cache[type], now) THEN "cached"
  ELSE "start"

\* loadUsage's three ways out: the fresh cached entry, the pending
\* promise, or a new fetch
LoadDecision(type) ==
  IF cache[type].kind = "entry" /\ isFresh(cache[type], now) THEN "cached"
  ELSE IF inFlight[type] # 0 THEN "join"
  ELSE "start"

\* the async body up to its first suspension: throws for a type other
\* than codex, else calls fetchCodexUsage
NewOperation(type, t, spawn) ==
  IF type # "codex"
  THEN [NoTask EXCEPT !.owner = "rpc", !.key = type, !.pc = "bodyErr",
                      !.res = ErrRes(<<"Unsupported usage type", type>>, t)]
  ELSE StartFetch("rpc", type, t, spawn)

\* a loadUsage that never registers its fetch promise
Register_Forgotten(type, t) == inFlight

\* inFlight.set(type, fetchPromise)
Register(type, t) == [inFlight EXCEPT ![type] = t]

\* const now = Date.now(), then the three ways out
loadUsage(c, type) ==
  LET d == LoadDecision(type) IN
  /\ callTime' = CallTimeAfter(c, now)
  /\ CASE d = "cached" ->
            /\ callers' = [callers EXCEPT ![c] =
                  [pc |-> "got", key |-> type, task |-> 0, res |-> cache[type]]]
            /\ UNCHANGED <<args, ret, env, ttl, now, cache, inFlight, tasks, nextTask>>
       [] d = "join" ->
            /\ callers' = [callers EXCEPT ![c] =
                  [pc |-> "awaiting", key |-> type, task |-> inFlight[type],
                   res |-> NoRes]]
            /\ UNCHANGED <<args, ret, env, ttl, now, cache, inFlight, tasks, nextTask>>
       [] d = "start" ->
            /\ nextTask <= MaxTasks
            /\ \E spawn \in SpawnOutcomes :
                 tasks' = [tasks EXCEPT ![nextTask] = NewOperation(type, nextTask, spawn)]
            /\ inFlight' = Register(type, nextTask)
            /\ nextTask' = nextTask + 1
            /\ callers' = [callers EXCEPT ![c] =
                  [pc |-> "awaiting", key |-> type, task |-> nextTask,
                   res |-> NoRes]]
            /\ UNCHANGED <<args, ret, env, ttl, now, cache>>

\* rpcApp.get("/usage/:type") and rpcApp.get("/last-updated/:type") up to
\* the await of loadUsage: 400 for an unsupported type
RpcRequest(c, raw) ==
  LET type == toLowerCase(raw) IN
  /\ callers[c].pc = "idle"
  /\ \A d \in Callers : d < c => callers[d].pc # "idle"
  /\ LoopReady
  /\ IF ~Supported(type)
     THEN /\ callers' = [callers EXCEPT ![c] =
                [pc |-> "rejected", key |-> type, task |-> 0,
                 res |-> ErrRes(<<"Unsupported usage type", type>>, 0)]]
          /\ UNCHANGED <<args, ret, env, ttl, now, cache, inFlight, tasks, nextTask, callTime>>
     ELSE loadUsage(c, type)

\* a .then callback in the place of .finally: skipped on rejection
Deregister_OnSuccessOnly(t) ==
  IF tasks[t].pc = "bodyOk" THEN [inFlight EXCEPT ![tasks[t].key] = 0] ELSE inFlight

\* inFlight.delete(type)
Deregister(t) == [inFlight EXCEPT ![tasks[t].key] = 0]

\* the .finally callback of the fetch promise, run when the async body
\* has settled, before the promise loadUsage returned settles
Finally(t) ==
  /\ tasks[t].pc \in {"bodyOk", "bodyErr"}
  /\ inFlight' = Deregister(t)
  /\ tasks' = [tasks EXCEPT ![t].pc = "settled"]
  /\ UNCHANGED <<args, ret, env, ttl, now, cache, nextTask, callers, callTime>>

\* an awaiter of the fetch promise resumes with its entry or its error
Deliver(c) ==
  LET t == callers[c].task IN
  /\ callers[c].pc = "awaiting"
  /\ Settled(t)
  /\ callers' = [callers EXCEPT ![c].pc =
          IF tasks[t].res.kind = "entry" THEN "got" ELSE "failed",
        ![c].res = tasks[t].res]
  /\ UNCHANGED <<args, ret, env, ttl, now, cache, inFlight, tasks, nextTask, callTime>>

\* the handler builds its response from the entry or the error and
\* returns; a settled fetch promise no handler holds is garbage
Respond(c) ==
  LET t == callers[c].task IN
  /\ callers[c].pc \in {"got", "failed", "rejected"}
  /\ callers' = [callers EXCEPT ![c] = IdleCaller]
  /\ callTime' = CallTimeAfter(c, 0)
  /\ tasks' = IF t # 0 /\ \A d \in Callers \ {c} : callers[d].task # t
              THEN [tasks EXCEPT ![t] = Collected(tasks[t].owner)] ELSE tasks
  /\ UNCHANGED <<args, ret, env, ttl, now, cache, inFlight, nextTask>>

\* the /api/usage handler returns its response (200, 404 or 500)
ApiRespond(t) ==
  /\ tasks[t].pc = "apiDone"
  /\ tasks' = [tasks EXCEPT ![t] = Collected("api")]
  /\ UNCHANGED <<args, ret, env, ttl, now, cache, inFlight, nextTask, callers, callTime>>

\* app.get("/api/usage"): 400 for an unsupported type, else fetchCodexUsage
\* is called directly
ApiRequest(raw) ==
  LET type == toLowerCase(raw) IN
  /\ LoopReady
  /\ IF ~Supported(type) THEN UNCHANGED vars
     ELSE /\ nextTask <= MaxTasks
          /\ Cardinality({t \in TaskIds : tasks[t].owner = "api"}) < NumApi
          /\ \E spawn \in SpawnOutcomes :
               tasks' = [tasks EXCEPT ![nextTask] = StartFetch("api", type, nextTask, spawn)]
          /\ nextTask' = nextTask + 1
          /\ UNCHANGED <<args, ret, env, ttl, now, cache, inFlight, callers, callTime>>

\* the clock advances
Tick ==
  /\ now < MaxNow
  /\ LoopReady
  /\ now' = now + 1
  /\ UNCHANGED <<args, ret, env, ttl, cache, inFlight, tasks, nextTask, callers, callTime>>

\* const cacheTtlMs = parseCacheTtl()
LoadModule ==
  /\ ttl = NotLoaded
  /\ ttl' = parseCacheTtl(env)
  /\ UNCHANGED <<args, ret, env, now, cache, inFlight, tasks, nextTask, callers, callTime>>

(* --------------------------- specifications --------------------------- *)
\* the RPC_CACHE_TTL_MS settings of the server runs: "0", no entry is ever
\* fresh, and "1", an entry is fresh until the clock advances; the other
\* settings, the unset variable among them, are read in SpecTtl
EnvChoices == {<<"0">>, <<"1">>}

\* no function is under evaluation
NoArgs == [fn |-> "none"]

InitRest ==
  /\ args = NoArgs
  /\ ret = NoArgs
  /\ now = 0
  /\ cache = [k \in Keys |-> NoEntry]
  /\ inFlight = [k \in Keys |-> 0]
  /\ tasks = [t \in TaskIds |-> NoTask]
  /\ nextTask = 1
  /\ callers = [c \in Callers |-> IdleCaller]
  /\ callTime = NotTracked

Init ==
  /\ env \in EnvChoices
  /\ ttl = parseCacheTtl(env)
  /\ InitRest

Next ==
  \/ \E c \in Callers, raw \in ReqTypes : RpcRequest(c, raw)
  \/ \E raw \in ReqTypes : ApiRequest(raw)
  \/ \E t \in TaskIds, kind \in Responses :
        \E id \in ResponseIds(t) : HandleLine(t, id, kind)
  \/ \E t \in TaskIds, kind \in LineKinds \ Responses : HandleLine(t, NoId, kind)
  \/ \E t \in TaskIds, id \in LineIds : Timeout(t, id)
  \/ \E t \in TaskIds, ev \in FetchExitEvents : Exit(t, ev)
  \/ \E t \in TaskIds : SpawnError(t)
  \/ \E t \in TaskIds, file \in AuthFileShapes : AuthDone(t, file)
  \/ \E t \in TaskIds : Finally(t)
  \/ \E c \in Callers : Deliver(c)
  \/ \E c \in Callers : Respond(c)
  \/ \E t \in TaskIds : ApiRespond(t)
  \/ Tick

Spec == Init /\ [][Next]_vars

\* what the event loop guarantees: a timer that is armed fires, the read of
\* the credential file ends and the "error" event of a failed spawn is
\* emitted, however many other events are taken meanwhile; queued promise
\* continuations and handlers run to their end.  Nothing makes the agent
\* answer or exit, and nothing makes a request arrive.
Fairness ==
  /\ \A t \in TaskIds : SF_vars(\E id \in LineIds : Timeout(t, id))
  /\ \A t \in TaskIds : SF_vars(\E file \in AuthFileShapes : AuthDone(t, file))
  /\ \A t \in TaskIds : WF_vars(SpawnError(t))
  /\ \A t \in TaskIds : WF_vars(Finally(t))
  /\ \A c \in Callers : WF_vars(Deliver(c))
  /\ \A c \in Callers : WF_vars(Respond(c))

\* the server with RPC_CACHE_TTL_MS = "0" and the /rpc requests for codex:
\* every request that finds no fetch in flight starts one
InitLive ==
  /\ env = <<"0">>
  /\ ttl = parseCacheTtl(env)
  /\ InitRest

NextLive ==
  \/ \E c \in Callers : RpcRequest(c, "codex")
  \/ \E t \in TaskIds, kind \in Responses :
        \E id \in ResponseIds(t) : HandleLine(t, id, kind)
  \/ \E t \in TaskIds, id \in LineIds : Timeout(t, id)
  \/ \E t \in TaskIds, ev \in FetchExitEvents : Exit(t, ev)
  \/ \E t \in TaskIds : SpawnError(t)
  \/ \E t \in TaskIds, file \in AuthFileShapes : AuthDone(t, file)
  \/ \E t \in TaskIds : Finally(t)
  \/ \E c \in Callers : Deliver(c)
  \/ \E c \in Callers : Respond(c)

SpecLive == InitLive /\ [][NextLive]_vars /\ Fairness

\* the server with the /rpc requests alone, each request keeping the clock
\* value its loadUsage call read
InitFresh ==
  /\ env \in EnvChoices
  /\ ttl = parseCacheTtl(env)
  /\ args = NoArgs
  /\ ret = NoArgs
  /\ now = 0
  /\ cache = [k \in Keys |-> NoEntry]
  /\ inFlight = [k \in Keys |-> 0]
  /\ tasks = [t \in TaskIds |-> NoTask]
  /\ nextTask = 1
  /\ callers = [c \in Callers |-> IdleCaller]
  /\ callTime = [c \in Callers |-> 0]

NextFresh ==
  \/ \E c \in Callers, raw \in ReqTypes : RpcRequest(c, raw)
  \/ \E t \in TaskIds, kind \in Responses :
        \E id \in ResponseIds(t) : HandleLine(t, id, kind)
  \/ \E t \in TaskIds, id \in LineIds : Timeout(t, id)
  \/ \E t \in TaskIds, ev \in FetchExitEvents : Exit(t, ev)
  \/ \E t \in TaskIds : SpawnError(t)
  \/ \E t \in TaskIds, file \in AuthFileShapes : AuthDone(t, file)
  \/ \E t \in TaskIds : Finally(t)
  \/ \E c \in Callers : Deliver(c)
  \/ \E c \in Callers : Respond(c)
  \/ Tick

SpecFresh == InitFresh /\ [][NextFresh]_vars

\* module evaluation alone, over every RPC_CACHE_TTL_MS string tried
InitTtl ==
  /\ env \in RawEnv
  /\ ttl = NotLoaded
  /\ InitRest

SpecTtl == InitTtl /\ [][LoadModule]_vars

\* the state of the server when only a function is evaluated
InitServer ==
  /\ env = Unset
  /\ ttl = parseCacheTtl(env)
  /\ now = 0
  /\ cache = [k \in Keys |-> NoEntry]
  /\ inFlight = [k \in Keys |-> 0]
  /\ nextTask = 1
  /\ callers = [c \in Callers |-> IdleCaller]
  /\ callTime = NotTracked

\* one CodexRpcClient, connected, in the hands of a caller that may call
\* request, notify and close in any order while lines, timeouts and the
\* exit of the process arrive
InitTransport ==
  /\ InitServer
  /\ args = NoArgs
  /\ ret = NoArgs
  /\ tasks = [t \in TaskIds |->
        IF t = 1 THEN [NoTask EXCEPT !.owner = "direct", !.pc = "direct",
                                     !.cl = Connect(TRUE)]
        ELSE NoTask]

Methods == {"initialize", "account/read", "account/rateLimits/read"}

NextTransport ==
  \/ \E m \in Methods : CallRequest(1, m)
  \/ CallNotify(1, "initialized")
  \/ CallClose(1)
  \/ \E id \in ResponseIds(1), kind \in Responses : HandleLine(1, id, kind)
  \/ \E kind \in LineKinds \ Responses : HandleLine(1, NoId, kind)
  \/ \E id \in LineIds : Timeout(1, id)
  \/ \E ev \in ExitEvents : Exit(1, ev)

SpecTransport == InitTransport /\ [][NextTransport]_vars

\* fetchCodexUsage from the fallback on, over the account results and
\* credential files tried
InitTail ==
  /\ InitServer
  /\ args \in [fn : {"tail"}, result : AccountResults, file : AuthFiles]
  /\ ret = NoArgs
  /\ tasks = [t \in TaskIds |-> NoTask]

RunTail ==
  /\ ret.fn = "none"
  /\ ret' = FetchTail(args.result, args.file)
  /\ UNCHANGED <<args, env, ttl, now, cache, inFlight, tasks, nextTask, callers, callTime>>

SpecTail == InitTail /\ [][RunTail]_vars

\* the if-none-match values tried: weak and strong tags, the empty string
EtagStrings ==
  {buildEtag("codex", ms) : ms \in Stamps}
    \cup {<<"\"", "codex", "-", ms, "\"">> : ms \in Stamps} \cup {<<>>}

\* the handlers from the entry on, over the entries and headers tried
InitConditional ==
  /\ InitServer
  /\ args \in [fn : {"conditional"},
                entry : {CachedUsage("codex", Snapshot(ms), 1) : ms \in Stamps},
                ifNoneMatch : EtagStrings \cup {Unset},
                ifModifiedSince : DateStrings \cup {Unset}]
  /\ ret = NoArgs
  /\ tasks = [t \in TaskIds |-> NoTask]

RunConditional ==
  /\ ret.fn = "none"
  /\ ret' = ConditionalResponse(args, args.entry)
  /\ UNCHANGED <<args, env, ttl, now, cache, inFlight, tasks, nextTask, callers, callTime>>

SpecConditional == InitConditional /\ [][RunConditional]_vars

(* ------------------------------- claims ------------------------------- *)
\* a step in which request c enters its handler and is answered or parked
Called(c) == callers[c].pc = "idle" /\ callers'[c].pc # "idle"

\* the fetches loadUsage(k) started that have not returned yet
FetchesOf(k) ==
  {t \in TaskIds : tasks[t].owner = "rpc" /\ tasks[t].key = k /\ Fetching(t)}

\* C1: in every reachable state, for every key, at most one upstream fetch
\* started by loadUsage(key) is in flight.
C1_OneFetchPerKey == \A k \in Keys : Cardinality(FetchesOf(k)) <= 1

\* two requests wait for the same key while its fetch is in flight and the
\* clock has advanced
C1_Witness ==
  /\ now > 0
  /\ \A c \in {1, 2} : callers[c].pc = "awaiting" /\ callers[c].key = "codex"
  /\ FetchesOf("codex") # {}

\* C2: callers that invoke loadUsage(key) with no fresh entry before the
\* started fetch completes all wait for the one registered fetch operation
\* (one fetch), and all receive the outcome of that operation: the same
\* entry or the same error.
C2_SharedOutcome ==
  \A c \in Callers, d \in Callers :
    LET t == callers[c].task IN
    /\ callers[c].pc = "awaiting" =>
          /\ tasks[t].owner = "rpc" /\ tasks[t].key = callers[c].key
          /\ tasks[t].pc # "settled" => inFlight[callers[c].key] = t
          /\ (callers[d].pc = "awaiting" /\ callers[d].key = callers[c].key)
                => callers[d].task = t
    /\ (callers[c].pc \in {"got", "failed"} /\ t # 0) =>
          /\ callers[c].res = tasks[t].res
          /\ callers[c].res.op = t
          /\ callers[d].task = t => callers[d].pc \in {"awaiting", callers[c].pc}
          /\ (callers[d].task = t /\ callers[d].pc # "awaiting")
                => callers[d].res = callers[c].res

\* two requests that waited for the same fetch have both received its error
C2_Witness ==
  /\ callers[1].pc = "failed" /\ callers[2].pc = "failed"
  /\ callers[1].task = callers[2].task
  /\ callers[1].res.kind = "error" /\ callers[1].res = callers[2].res

\* C3: a loadUsage(key) call made while an entry exists with
\* now - entry.lastUpdated < ttl returns that entry, starts no fetch and
\* registers no in-flight operation.
C3_FreshHit ==
  [][\A c \in Callers :
       LET k == callers'[c].key IN
       (/\ Called(c)
        /\ k \in SUPPORTED_TYPES
        /\ cache[k].kind = "entry"
        /\ now - cache[k].at < ttl)
       => /\ callers'[c].pc = "got"
          /\ callers'[c].res = cache[k]
          /\ callers'[c].task = 0
          /\ tasks' = tasks
          /\ inFlight' = inFlight
          /\ nextTask' = nextTask]_vars

\* a request was answered from the cache, after the clock advanced, with
\* no fetch in flight
C3_Witness ==
  /\ now > 0
  /\ \E c \in Callers :
        /\ callers[c].pc = "got" /\ callers[c].task = 0
        /\ callers[c].res.kind = "entry" /\ callers[c].res = cache["codex"]
  /\ \A t \in TaskIds : ~Fetching(t)

\* C4: a failed fetch leaves the cache as it was (no entry created, a prior
\* entry kept), no failure stays registered, and a loadUsage(key) call made
\* when no fresh entry exists waits for a live fetch (a new one when none is
\* registered), never for a stored failure.
C4_FailureNotStored ==
  [][/\ \A t \in TaskIds :
          (tasks'[t].pc = "bodyErr" \/ tasks'[t].res.kind = "error") => cache' = cache
     /\ \A k \in Keys : cache'[k].kind \in {"none", "entry"}
     /\ \A c \in Callers :
          LET k == callers'[c].key
              t == callers'[c].task IN
          (/\ Called(c)
           /\ k \in SUPPORTED_TYPES
           /\ ~(cache[k].kind = "entry" /\ now - cache[k].at < ttl))
          => /\ callers'[c].pc = "awaiting"
             /\ tasks'[t].pc \in InFlightPcs
             /\ tasks'[t].res.kind = "none"
             /\ inFlight[k] = 0 => (t = nextTask /\ nextTask' = nextTask + 1)]_vars

\* the first loadUsage fetch failed (it is gone and left no entry), and a
\* second fetch is in flight for a later request
C4_Witness ==
  /\ tasks[1].owner = "rpc" /\ tasks[1].pc = "gone"
  /\ cache["codex"].kind = "none"
  /\ tasks[2].owner = "rpc" /\ Fetching(2)
  /\ inFlight["codex"] = 2

\* C5 as stated: over all entry points at most one upstream fetch (one
\* agent process) is in flight at a time.
C5_OneFetchServerWide == Cardinality({t \in TaskIds : Fetching(t)}) <= 1

\* C5 as amended: at most one fetch started through loadUsage (/rpc/usage,
\* /rpc/last-updated) is in flight at a time, over all keys; every other
\* fetch in flight belongs to an /api/usage request, which calls
\* fetchCodexUsage itself.
C5_OneFetchViaLoadUsage ==
  /\ Cardinality({t \in TaskIds : Fetching(t) /\ tasks[t].owner # "api"}) <= 1
  /\ \A t \in TaskIds : Fetching(t) =>
        \/ tasks[t].owner = "api"
        \/ (tasks[t].owner = "rpc" /\ inFlight[tasks[t].key] = t)

\* a loadUsage fetch and an /api/usage fetch are in flight together
C5_Witness ==
  \E t \in TaskIds, u \in TaskIds :
    /\ Fetching(t) /\ tasks[t].owner = "rpc"
    /\ Fetching(u) /\ tasks[u].owner = "api"

\* C6: a request for a key outside the supported set is answered
\* 'Unsupported usage type' with no fetch attempted: no fetch operation is
\* created or registered, no agent process is spawned, the cache is left
\* alone; and no fetch operation or cache entry ever exists for such a key.
C6_UnsupportedRejected ==
  /\ [](\A k \in Keys \ SUPPORTED_TYPES :
          /\ cache[k].kind = "none"
          /\ inFlight[k] = 0
          /\ \A t \in TaskIds : tasks[t].key # k)
  /\ [][\A c \in Callers :
          LET k == callers'[c].key IN
          (Called(c) /\ k \notin SUPPORTED_TYPES)
          => /\ callers'[c].pc = "rejected"
             /\ callers'[c].res.kind = "error"
             /\ callers'[c].res.err = <<"Unsupported usage type", k>>
             /\ callers'[c].task = 0
             /\ tasks' = tasks
             /\ cache' = cache
             /\ inFlight' = inFlight
             /\ nextTask' = nextTask]_vars

\* a request for claude was rejected while a codex fetch is in flight
C6_Witness ==
  /\ \E c \in Callers : callers[c].pc = "rejected" /\ callers[c].key = "claude"
  /\ \E t \in TaskIds : Fetching(t)

\* C7: with a TTL of zero every loadUsage(key) call made while no fetch is
\* registered for the key starts a new upstream fetch, whatever the cache
\* holds.
C7_ZeroTtlAlwaysFetches ==
  [][\A c \in Callers :
       LET k == callers'[c].key IN
       (Called(c) /\ ttl = 0 /\ k \in SUPPORTED_TYPES /\ inFlight[k] = 0)
       => /\ nextTask' = nextTask + 1
          /\ callers'[c].pc = "awaiting"
          /\ callers'[c].task = nextTask
          /\ inFlight'[k] = nextTask
          /\ tasks[nextTask].pc = "free"
          /\ tasks'[nextTask].pc \in {"connect", "init"}
          /\ tasks'[nextTask].cl.proc \in {"running", "spawn-failed"}
          /\ tasks'[nextTask].cl.proc = "running"
                => tasks'[nextTask].cl.written = <<"initialize">>]_vars

\* TTL zero: a second fetch is in flight although the entry of the first
\* was stored at this very clock value
C7_Witness ==
  /\ ttl = 0
  /\ cache["codex"].kind = "entry" /\ cache["codex"].at = now
  /\ \E t \in TaskIds :
        /\ Fetching(t) /\ tasks[t].owner = "rpc"
        /\ cache["codex"].op # t

\* the number a RPC_CACHE_TTL_MS string denotes
EnvNumber == StringToNumber(env)
EnvUnset == env = Unset \/ env = <<>>

\* C8: the effective TTL is a finite number >= 0; an unset (or empty),
\* negative or non-finite RPC_CACHE_TTL_MS gives 10000, and a string that
\* denotes a finite number >= 0 (0 included) gives that number.
C8_TtlFallback ==
  ttl # NotLoaded =>
    /\ ttl \in Nat
    /\ (EnvUnset \/ EnvNumber.k # "num" \/ EnvNumber.v < 0) => ttl = 10000
    /\ (~EnvUnset /\ EnvNumber.k = "num" /\ EnvNumber.v >= 0) => ttl = EnvNumber.v

\* RPC_CACHE_TTL_MS = "-1" was read and the default is in force
C8_Witness == env = <<"-", "1">> /\ ttl = 10000

\* the calls of client cl that were rejected
FailedCalls(cl) ==
  {id \in 1..(cl.nextId - 1) :
     id \notin cl.resolved /\ \A x \in cl.pending : x.id # id}

IsPrefix(s, u) == Len(s) <= Len(u) /\ s = SubSeq(u, 1, Len(s))

\* C9: what a fetch has written is a prefix of initialize, initialized,
\* account/read, account/rateLimits/read; initialized and account/read are
\* written only when initialize was answered with a result, and
\* account/rateLimits/read only when account/read was; a fetch with a
\* failed call has failed as a whole, and a failed fetch writes nothing
\* more.
C9_ProtocolOrder ==
  /\ [](\A t \in TaskIds :
          LET cl == tasks[t].cl IN
          /\ IsPrefix(cl.written, PROTOCOL)
          /\ Len(cl.written) >= 2 => 1 \in cl.resolved
          /\ Len(cl.written) >= 4 => 2 \in cl.resolved
          /\ FailedCalls(cl) # {} =>
                (tasks[t].res.kind = "error" /\ ~Fetching(t)))
  /\ [][\A t \in TaskIds :
          (tasks[t].res.kind = "error" /\ tasks'[t].pc # "gone")
          => tasks'[t].cl.written = tasks[t].cl.written]_vars

\* a fetch wrote the four messages and returned a snapshot
C9_Witness ==
  \E t \in TaskIds :
    /\ tasks[t].cl.written = PROTOCOL
    /\ tasks[t].cl.resolved = {1, 2, 3}
    /\ tasks[t].res.kind = "entry"

\* fetchCodexUsage has returned or thrown
Returned(t) == tasks[t].pc \in {"bodyOk", "bodyErr", "settled", "apiDone"}

\* C10: when fetchCodexUsage returns or throws after it spawned the agent
\* process, close() has run: the client is closed, kill() was called, the
\* reader is closed, stdin ended, no PendingCall and no timer is left; so
\* every request that holds a result or an error holds it from a closed
\* client.
C10_AlwaysClosed ==
  /\ \A t \in TaskIds :
        (Returned(t) /\ tasks[t].cl.proc # "none") =>
          LET cl == tasks[t].cl IN
          /\ cl.closed
          /\ cl.kills = 1
          /\ cl.proc \in {"killed", "exited"}
          /\ cl.rl = "closed" /\ cl.stdin = "ended"
          /\ cl.pending = {} /\ cl.timers = {}
  /\ \A c \in Callers :
        (callers[c].pc \in {"got", "failed"} /\ callers[c].task # 0) =>
          tasks[callers[c].task].pc = "settled"

\* the initialize call failed and the error reached a request: the client
\* is closed
C10_Witness ==
  \E c \in Callers :
    LET t == callers[c].task IN
    /\ callers[c].pc = "failed"
    /\ t # 0
    /\ tasks[t].cl.written = <<"initialize">>
    /\ tasks[t].cl.closed

\* the error of the exit handler for this event: for a code other than 0
\* it carries the code ("unknown" without one) and the signal
IsExitErrorOf(err, ev) ==
  IF ev.code = "0" THEN err = <<"exited-unexpectedly">>
  ELSE /\ Len(err) = 4
       /\ err[1] = "exited"
       /\ err[2] = (IF ev.code = "null" THEN "unknown" ELSE ev.code)
       /\ err[4] = (IF ev.signal = "none" THEN "" ELSE ev.signal)

\* the calls of cl rejected with an error of this kind
RejectedAs(cl, kind) == {r.id : r \in {x \in cl.rejected : x.err[1] = kind}}

C12_CloseAfterExitNoOp ==
  \A t \in TaskIds :
    LET cl == tasks[t].cl IN
    cl.proc = "exited" =>
      ~cl.closed /\ cl.kills = 0 /\ cl.rl = "open" /\ cl.stdin = "open"

\* C12 as amended: a close() after the process has exited and its calls
\* were failed rejects and resolves no call and leaves the pending table
\* empty, but it is no no-op: it sets closed, closes the line reader, ends
\* stdin and calls kill() on the exited process.
C12_CloseAfterExit ==
  [][\A t \in TaskIds :
       LET cl == tasks[t].cl
           cl2 == tasks'[t].cl IN
       (cl.proc = "exited" /\ cl.pending = {} /\ ~cl.closed /\ cl2.closed) =>
         /\ cl2.rejected = cl.rejected /\ cl2.resolved = cl.resolved
         /\ cl2.pending = {} /\ cl2.timers = {}
         /\ cl2.proc = "exited"
         /\ cl2.rl = "closed" /\ cl2.stdin = "ended"
         /\ cl2.kills = cl.kills + 1]_vars

\* the process exited with code 2 while two calls were pending, and the
\* client was closed afterwards
C12_Witness ==
  \E t \in TaskIds :
    LET cl == tasks[t].cl IN
    /\ cl.proc = "exited" /\ cl.closed /\ cl.kills = 1
    /\ Cardinality({r \in cl.rejected : r.err = <<"exited", "2", "$", "">>}) = 2
    /\ RejectedAs(cl, "closed") = {}

\* C13: the first close() rejects every pending call, clears their timers,
\* closes the line reader, ends stdin and kills the process; from then on
\* nothing changes the client, a further close() included, and no call has
\* two rejections.
C13_CloseIdempotent ==
  /\ [](\A t \in TaskIds :
          /\ tasks[t].cl.kills <= 1
          /\ \A r \in tasks[t].cl.rejected, q \in tasks[t].cl.rejected :
               r.id = q.id => r = q
          /\ \A r \in tasks[t].cl.rejected : r.id \notin tasks[t].cl.resolved)
  /\ [][\A t \in TaskIds :
          LET cl == tasks[t].cl
              cl2 == tasks'[t].cl IN
          /\ (~cl.closed /\ cl2.closed) =>
               /\ cl2.pending = {} /\ cl2.timers = {}
               /\ \A x \in cl.pending :
                    [id |-> x.id, err |-> <<"closed">>] \in cl2.rejected
               /\ cl2.resolved = cl.resolved
               /\ cl2.rl = "closed" /\ cl2.stdin = "ended"
               /\ cl2.kills = cl.kills + 1
               /\ cl2.proc # "running"
          /\ (cl.closed /\ tasks'[t].pc # "gone") => cl2 = cl]_vars

\* a client was closed while two calls were pending: both were rejected by
\* close, once
C13_Witness ==
  \E t \in TaskIds :
    LET cl == tasks[t].cl IN
    /\ cl.closed /\ cl.kills = 1 /\ cl.proc = "killed"
    /\ Cardinality(RejectedAs(cl, "closed")) = 2

\* C14: a line that is no JSON, has no numeric id, or has an id with no
\* pending call leaves the client as it is: no call resolved or rejected,
\* the pending table and the timers unchanged.
C14_StrayLineDropped ==
  \A t \in TaskIds, id \in LineIds \cup {NoId}, kind \in LineKinds :
    LET cl == tasks[t].cl IN
    (kind \in {"junk", "noid"} \/ \A x \in cl.pending : x.id # id)
      => handleLine(cl, id, kind) = cl

\* call 1 timed out and was removed while call 2 is pending with its
\* timer and the reader is open: a late answer to call 1 finds no entry
C14_Witness ==
  \E t \in TaskIds :
    LET cl == tasks[t].cl IN
    /\ cl.rl = "open"
    /\ 1 \in RejectedAs(cl, "timeout")
    /\ \E x \in cl.pending : x.id = 2
    /\ 2 \in cl.timers

\* C15 as stated: when the binary cannot be spawned the fetch has failed
\* with the spawn error, has written no protocol message, and the server
\* goes on (the error is handled).
C15_SpawnErrorPropagated ==
  /\ ~Crashed
  /\ \A t \in TaskIds :
       tasks[t].cl.proc = "spawn-failed" =>
         /\ tasks[t].res.kind = "error"
         /\ ~Fetching(t)
         /\ tasks[t].cl.written = <<>>

\* what fetchCodexUsage returned for the arguments under evaluation
TailDone == ret.fn = "tail"
\* the email and planType the account/read result reports
RpcEmail == IF args.result.hasAccount THEN args.result.email ELSE Undefined
RpcPlan == IF args.result.hasAccount THEN args.result.planType ELSE Undefined
\* the credential file is one the fallback reader fails on, or one
\* without a token
NoFallbackFile == args.file.kind # "token-claims"
Present(v) == v \notin {Undefined, Null}

FileEmail ==
  IF args.file.claims.nsEmail # Undefined THEN args.file.claims.nsEmail
  ELSE args.file.claims.email
FilePlan ==
  IF args.file.claims.nsPlan # Undefined THEN args.file.claims.nsPlan
  ELSE args.file.claims.plan

\* C17: the merged email (planType) is the RPC result's whenever that has
\* one; it is the credential file's only when the RPC result has none
\* (undefined or null); it is absent when neither has one.
C17_RpcWins ==
  TailDone =>
    /\ Present(RpcEmail) => ret.account.email = RpcEmail
    /\ (~Present(RpcEmail) /\ Present(FileEmail)) => ret.account.email = FileEmail
    /\ (~Present(RpcEmail) /\ ~Present(FileEmail)) => ~Present(ret.account.email)
    /\ Present(RpcPlan) => ret.account.planType = RpcPlan
    /\ (~Present(RpcPlan) /\ Present(FilePlan)) => ret.account.planType = FilePlan
    /\ (~Present(RpcPlan) /\ ~Present(FilePlan)) => ~Present(ret.account.planType)

\* the RPC result reports a@x.com, the credential file b@y.com: the merged
\* email is a@x.com, and the plan, which the RPC result lacks, is the file's
C17_Witness ==
  /\ TailDone
  /\ RpcEmail = "a@x.com" /\ FileEmail = "b@y.com"
  /\ ret.account.email = "a@x.com"
  /\ RpcPlan = Undefined /\ FilePlan = "free"
  /\ ret.account.planType = "free"

\* the two conditions of a conditional request
EtagMatches == args.ifNoneMatch = args.entry.etag
NotModifiedSince ==
  /\ args.ifModifiedSince # Unset
  /\ DateParse(args.ifModifiedSince).k = "num"
  /\ DateParse(args.ifModifiedSince).v >= args.entry.at

\* C18: the answer is 304 exactly when if-none-match equals the entry's
\* ETag or if-modified-since parses to a time >= lastUpdated (one of the
\* two suffices); a request with neither header gets 200 with ETag,
\* Last-Modified, X-Last-Updated and Cache-Control: no-cache.
C18_ConditionalDecision ==
  ret.fn = "conditional" =>
    /\ (ret.status = 304) <=> (EtagMatches \/ NotModifiedSince)
    /\ (args.ifNoneMatch = Unset /\ args.ifModifiedSince = Unset) =>
         /\ ret.status = 200
         /\ ret.headers.ETag = <<"W/", "codex", "-", args.entry.at>>
         /\ ret.headers.LastModified = <<"http-date", args.entry.at \div 1000>>
         /\ ret.headers.XLastUpdated = <<"decimal", args.entry.at>>
         /\ ret.headers.CacheControl = <<"no-cache">>

\* both headers are present and disagree: the tag is another entry's, the
\* date is not before lastUpdated; the answer is 304
C18_Witness ==
  /\ ret.fn = "conditional"
  /\ args.ifNoneMatch # Unset /\ args.ifNoneMatch # <<>> /\ ~EtagMatches
  /\ NotModifiedSince
  /\ ret.status = 304

\* C19: a request that has received the entry or the error of a fetch
\* finds that fetch no longer registered; one that has received an error
\* finds no fetch registered for the key at all, so its next loadUsage
\* call starts a new fetch.
C19_DeregisteredFirst ==
  \A c \in Callers :
    LET t == callers[c].task IN
    /\ (callers[c].pc \in {"got", "failed"} /\ t # 0) =>
          /\ inFlight[callers[c].key] # t
          /\ \A k \in Keys : inFlight[k] # t
    /\ (callers[c].pc = "failed" /\ t # 0) =>
          /\ inFlight[callers[c].key] = 0
          /\ LoadDecision(callers[c].key) = "start"

\* one request has received the error of a fetch while another that
\* waited for the same fetch has not resumed yet
C19_Witness ==
  \E c \in Callers, d \in Callers :
    /\ callers[c].pc = "failed" /\ callers[c].task # 0
    /\ callers[d].pc = "awaiting" /\ callers[d].task = callers[c].task
    /\ inFlight[callers[c].key] = 0

\* C20: every entry in the cache has lastUpdated = usage.fetchedAt and
\* etag = W/"<key>-<lastUpdated>"; a request that has received the entry of
\* a fetch finds exactly that entry in the cache, whatever was there before.
C20_EntryStored ==
  /\ \A k \in Keys :
       cache[k].kind = "entry" =>
         /\ cache[k].usage.provider = "codex" /\ cache[k].usage.source = "rpc"
         /\ cache[k].at = cache[k].usage.fetchedAt
         /\ cache[k].etag = <<"W/", k, "-", cache[k].at>>
  /\ \A c \in Callers :
       (callers[c].pc = "got" /\ callers[c].task # 0) =>
         /\ cache[callers[c].key] = callers[c].res
         /\ callers[c].res.kind = "entry"
         /\ callers[c].res.op = callers[c].task

\* the entry of a second fetch has replaced that of the first and a
\* request has received it
C20_Witness ==
  \E c \in Callers :
    /\ callers[c].pc = "got" /\ callers[c].task = 2
    /\ tasks[1].owner = "rpc"
    /\ cache["codex"].op = 2 /\ cache["codex"].at > 0

\* the ids of the calls of cl that are pending, and of those that were
\* settled
PendingIds(cl) == {x.id : x \in cl.pending}
SettledIds(cl) == cl.resolved \cup {r.id : r \in cl.rejected}
\* the methods of the calls cl has written, in the order of writing
CallsWritten(cl) == SelectSeq(cl.written, LAMBDA m : m # "initialized")

\* C21: the k-th call of a client has id k: nextId is one more than the
\* number of calls written and only grows, a new PendingCall takes the id
\* nextId, which no pending or settled call has, and no two PendingCalls
\* have the same id.
C21_IdsNeverReused ==
  /\ [](\A t \in TaskIds :
          LET cl == tasks[t].cl IN
          /\ cl.nextId = Len(CallsWritten(cl)) + 1
          /\ PendingIds(cl) \cup SettledIds(cl) \cup cl.timers \subseteq 1..(cl.nextId - 1)
          /\ \A x \in cl.pending, y \in cl.pending : x.id = y.id => x = y
          /\ \A x \in cl.pending : CallsWritten(cl)[x.id] = x.method)
  /\ [][\A t \in TaskIds :
          LET cl == tasks[t].cl
              cl2 == tasks'[t].cl IN
          /\ cl2.nextId >= cl.nextId
          /\ \A x \in cl2.pending \ cl.pending :
               /\ x.id = cl.nextId
               /\ cl2.nextId = cl.nextId + 1
               /\ x.id \notin PendingIds(cl) \cup SettledIds(cl)
               /\ \A y \in cl.pending : y.id < x.id]_vars

\* three calls were issued, the first was answered, the second timed out
\* and the third is pending: it has id 3
C21_Witness ==
  \E t \in TaskIds :
    LET cl == tasks[t].cl IN
    /\ cl.nextId = 4
    /\ 1 \in cl.resolved
    /\ 2 \in RejectedAs(cl, "timeout")
    /\ PendingIds(cl) = {3}

\* the outcomes call id of cl has
OutcomesOf(cl, id) ==
  {<<"resolved">> : i \in cl.resolved \cap {id}}
    \cup {r.err : r \in {x \in cl.rejected : x.id = id}}

\* C22: every call issued is pending with its timer armed, or settled with
\* one outcome and without PendingCall and timer, never both; a settled
\* call keeps its outcome over every later step, and a response, an exit
\* or a close() that comes after leaves that outcome as it is.
C22_SettledOnce ==
  /\ [](\A t \in TaskIds :
          LET cl == tasks[t].cl IN
          /\ cl.timers = PendingIds(cl)
          /\ \A id \in 1..(cl.nextId - 1) :
               /\ (id \in PendingIds(cl)) <=> (OutcomesOf(cl, id) = {})
               /\ Cardinality(OutcomesOf(cl, id)) <= 1
               /\ OutcomesOf(cl, id) # {} =>
                    /\ \A kind \in Responses :
                         OutcomesOf(handleLine(cl, id, kind), id) = OutcomesOf(cl, id)
                    /\ OutcomesOf(onTimeout(cl, id), id) = OutcomesOf(cl, id)
                    /\ \A ev \in ExitEvents :
                         OutcomesOf(onExit(cl, ev), id) = OutcomesOf(cl, id)
                    /\ OutcomesOf(close(cl), id) = OutcomesOf(cl, id))
  /\ [][\A t \in TaskIds :
          LET cl == tasks[t].cl
              cl2 == tasks'[t].cl IN
          tasks'[t].pc # "gone" =>
            \A id \in SettledIds(cl) :
              /\ OutcomesOf(cl2, id) = OutcomesOf(cl, id)
              /\ id \notin PendingIds(cl2) \cup cl2.timers]_vars

\* three calls, each settled by another trigger: a response, the timeout,
\* close()
C22_Witness ==
  \E t \in TaskIds :
    LET cl == tasks[t].cl IN
    /\ OutcomesOf(cl, 1) = {<<"resolved">>}
    /\ 2 \in RejectedAs(cl, "timeout")
    /\ 3 \in RejectedAs(cl, "closed")
    /\ cl.pending = {} /\ cl.timers = {}

\* C23: a response line for a pending id settles that call and no other:
\* a result resolves it, an error rejects it with the RPC error, its
\* PendingCall and timer are removed, and every other pending call, timer
\* and outcome stays, whichever pending id the line carries.
C23_MatchedById ==
  \A t \in TaskIds :
    LET cl == tasks[t].cl IN
    \A id \in PendingIds(cl), kind \in Responses :
      LET cl2 == handleLine(cl, id, kind) IN
      /\ PendingIds(cl2) = PendingIds(cl) \ {id}
      /\ cl2.pending \subseteq cl.pending
      /\ cl2.timers = cl.timers \ {id}
      /\ OutcomesOf(cl2, id) =
           (IF kind = "result" THEN {<<"resolved">>}
            ELSE {<<"rpc-error", MethodOf(cl, id)>>})
      /\ \A other \in (1..(cl.nextId - 1)) \ {id} :
           OutcomesOf(cl2, other) = OutcomesOf(cl, other)

\* three calls were pending; the answer to the third came first (a result),
\* then the answer to the first (an error); the second is still pending
C23_Witness ==
  \E t \in TaskIds :
    LET cl == tasks[t].cl IN
    /\ cl.resolved = {3}
    /\ 1 \in RejectedAs(cl, "rpc-error")
    /\ PendingIds(cl) = {2} /\ cl.timers = {2}

\* C25: the client of a fetch has at most one PendingCall at any time, the
\* call fetchCodexUsage awaits, which is the last one written; while it is
\* pending every earlier call has been answered with a result.
C25_OneCallPending ==
  \A t \in TaskIds :
    LET cl == tasks[t].cl IN
    tasks[t].owner \in {"rpc", "api"} =>
      /\ Cardinality(cl.pending) <= 1
      /\ cl.timers = PendingIds(cl)
      /\ \A x \in cl.pending :
           /\ x.id = tasks[t].await
           /\ x.id = cl.nextId - 1
           /\ cl.resolved = 1..(x.id - 1)

\* account/rateLimits/read is the one pending call of a fetch whose first
\* two calls were answered
C25_Witness ==
  \E t \in TaskIds :
    LET cl == tasks[t].cl IN
    /\ tasks[t].owner = "rpc"
    /\ cl.pending = {[id |-> 3, method |-> "account/rateLimits/read"]}
    /\ cl.resolved = {1, 2}

\* C24: under fair timers, every call that is pending is settled, every
\* fetchCodexUsage run returns or throws, every in-flight registration is
\* removed and every request that waits in loadUsage resumes, whether or
\* not the agent ever writes a line or exits.
C24_EveryCallEnds ==
  /\ \A t \in TaskIds, id \in LineIds :
       (id \in PendingIds(tasks[t].cl)) ~> (id \notin PendingIds(tasks[t].cl))
  /\ \A t \in TaskIds : Fetching(t) ~> ~Fetching(t)
  /\ \A k \in Keys : (inFlight[k] # 0) ~> (inFlight[k] = 0)
  /\ \A c \in Callers : (callers[c].pc = "awaiting") ~> (callers[c].pc # "awaiting")

\* the agent never answered: the initialize call timed out, the fetch
\* failed, its registration is gone and the request holds the error
C24_Witness ==
  \E c \in Callers :
    LET t == callers[c].task IN
    /\ callers[c].pc = "failed" /\ t # 0
    /\ tasks[t].cl.resolved = {}
    /\ RejectedAs(tasks[t].cl, "timeout") = {1}
    /\ callers[c].res.err[1] = "timeout"
    /\ inFlight[callers[c].key] = 0

\* the calls of cl that were rejected with the error of the exit handler
ExitRejected(cl) ==
  {r \in cl.rejected : r.err[1] \in {"exited", "exited-unexpectedly"}}

GotEntry(c) == callers[c].pc = "got" /\ callers[c].res.kind = "entry"

\* C27 as stated: the entry a request receives has lastUpdated greater than
\* callTime - ttl, callTime being the clock value its loadUsage call read.
C27_WithinWindow ==
  \A c \in Callers :
    GotEntry(c) => callers[c].res.at > callTime[c] - ttl

\* C27 as amended: the entry a request receives is either the cached entry,
\* with lastUpdated > callTime - ttl, or the entry of a fetch that ended
\* after the call, with lastUpdated >= callTime; so lastUpdated is greater
\* than callTime - ttl for a ttl above zero, and at least callTime for a
\* ttl of zero.
C27_FreshOrFetchedAfter ==
  \A c \in Callers :
    GotEntry(c) =>
      /\ callTime[c] <= now
      /\ callers[c].task = 0 => callers[c].res.at > callTime[c] - ttl
      /\ callers[c].task # 0 =>
           /\ callers[c].res.at >= callTime[c]
           /\ callers[c].res.at = tasks[callers[c].task].res.usage.fetchedAt
      /\ ttl > 0 => callers[c].res.at > callTime[c] - ttl
      /\ ttl = 0 => callers[c].res.at >= callTime[c]

\* TTL zero: a request that called at clock value 1 joined a fetch started
\* at 0 and holds its entry, stamped 1
C27_Witness ==
  \E c \in Callers, d \in Callers :
    /\ ttl = 0
    /\ GotEntry(c) /\ callers[c].task # 0
    /\ callTime[c] = 1 /\ callers[c].res.at = 1
    /\ callers[d].task = callers[c].task /\ callTime[d] = 0

\* the validators the server emits for the entry under evaluation
EmittedETag == applyCacheHeaders(args.entry).ETag
EmittedLastModified == applyCacheHeaders(args.entry).LastModified

\* C28 as stated: a request that sends back the ETag the server emitted
\* for the entry as if-none-match, or the Last-Modified it emitted as
\* if-modified-since, is answered 304.
C28_ValidatorRoundTrip ==
  ret.fn = "conditional" =>
    /\ args.ifNoneMatch = EmittedETag => ret.status = 304
    /\ args.ifModifiedSince = EmittedLastModified => ret.status = 304

====
